---- MODULE Spec2Model ----
(***************************************************************************)
(* Model of the two upload scripts of the repository:                      *)
(*   youtube-upload.py  (version 1.3.0, configurable retry ceiling,        *)
(*                       refresh_token_with_retry, headless authorization) *)
(*   youtube_upload.py  (first version, MAX_RETRIES = 10)                  *)
(* One process runs one script: get_authenticated_service, then            *)
(* initialize_upload / resumable_upload.  Every call to the outside world  *)
(* (token store file, token endpoint, operator, chunk upload) is one step  *)
(* whose result is chosen by the environment.                              *)
(***************************************************************************)
EXTENDS Integers, Sequences, FiniteSets, TLC

\* ------------------------------------------------------------------ bounds
\* largest retry ceiling read from config.cfg by youtube-upload.py
MaxCeiling == 3
\* length of the video file, in units of server-acknowledged progress
FileLen == 3

\* ------------------------------------------------------- program constants
ScriptNew == "youtube-upload.py"
ScriptOld == "youtube_upload.py"
Scripts == {ScriptNew, ScriptOld}

\* MAX_RETRIES of youtube_upload.py
MAX_RETRIES_old == 10

RETRIABLE_STATUS_CODES_all == {400, 401, 403, 404, 500, 502, 503, 504}
RETRIABLE_STATUS_CODES == {500, 502, 503, 504}

\* HTTP statuses an HttpError of next_chunk can carry
HttpStatuses == {400, 401, 403, 404, 500, 502, 503, 504}

\* Python's None, for a token and for an expiry (tokens and times are >= 1)
None == 0

\* credentials with less than 10 minutes remaining are refreshed
RefreshMargin == 600
SecondsPerDay == 86400
\* creds.expiry = now + timedelta(seconds=3600)
DefaultLifetime == 3600

VARIABLES
    script,        \* which of the two scripts this process runs
    MAX_RETRIES,   \* retry ceiling (config value, or the constant 10)
    FORCE_TOKEN_REFRESH_DAYS, \* config value of youtube-upload.py
    args,          \* parsed command line
    pc,            \* position of the process
    exit_kind,     \* how the process ended: "" while running
    \* --- the world of get_authenticated_service
    now,           \* wall clock, in seconds
    store,         \* the file OAUTH2_STORAGE_FILE
    minted,        \* latest access token issued by the authorization server
    \* --- get_authenticated_service / refresh_token_with_retry locals
    creds,         \* the Credentials object (set = FALSE: creds is None)
    creds_origin,  \* where creds comes from: "none", "store" or "flow"
    creds_data,    \* the record read from the store at start
    current_time,  \* the clock reading taken after loading
    retry_count,   \* retry counter of refresh_token_with_retry
    refresh_site,  \* which call of refresh_token_with_retry is running
    youtube,       \* credentials the service object was built with
    \* --- what the manager did, as seen from outside
    refresh_calls,        \* creds.refresh() calls issued
    refresh_calls_loaded, \* ... of them on the credentials loaded from the store
    prompts,              \* authorization prompts shown to the operator
    removes,              \* os.remove(OAUTH2_STORAGE_FILE) calls
    refreshed_token,      \* access token of the latest successful creds.refresh()
    fetched,              \* flow.credentials as flow.fetch_token delivered them
    exchange,             \* flow.fetch_token: "none" (not called), "ok", "failed"
    run_calls,            \* creds.refresh() calls of this run of refresh_token_with_retry
    refresh_error,        \* what the latest creds.refresh() of this run raised
    \* --- resumable_upload locals
    response,      \* "None", "id" (body with 'id'), "no_id" (body without)
    error,         \* "None" or the kind of the retriable error message
    retry,         \* retry counter
    \* --- insert_request (MediaFileUpload / HttpRequest) state
    progress,      \* resumable_progress: bytes acknowledged by the server
    \* --- what the process did, as seen from outside
    chunk_calls,   \* number of next_chunk() calls issued
    sleeps,        \* number of time.sleep() calls of the upload loop
    partial_acks,  \* chunk calls answered "acknowledged, more remaining"
    failures,      \* chunk calls that failed with a retriable failure
    run,           \* retriable failures since the latest acknowledgment
    max_run,       \* longest run of consecutive retriable failures
    last_chunk,    \* what the latest chunk call returned or raised
    last_status,   \* its HTTP status when it raised HttpError, else 0
    upload_state,  \* state of the upload state machine
    max_sleep,     \* max_sleep of the latest backoff of the upload loop
    sleep_seconds, \* its sleep_seconds, in units of 1/RandomSteps second
    \* --- the calls after the upload, as seen from outside
    thumbnail_calls,  \* thumbnails().set(...).execute() calls issued
    thumbnail_result, \* "none", "ok", "HttpError" or "error"
    playlist_calls,   \* playlistItems().insert(...).execute() calls issued
    playlist_result,  \* "none", "ok", "HttpError" or "error"
    \* --- one record on its way through the store file and back
    persisted,     \* the Credentials object that is written
    token_file,    \* the JSON object in the store file
    reloaded,      \* the Credentials object that loading yields
    trip_pc        \* "idle", "write", "load", "loaded" or "ValueError"

postVars == <<thumbnail_calls, thumbnail_result, playlist_calls, playlist_result>>
uploadVars == <<response, error, retry, progress, chunk_calls, sleeps,
                partial_acks, failures, run, max_run, last_chunk, last_status,
                upload_state, max_sleep, sleep_seconds, postVars>>
configVars == <<script, MAX_RETRIES, FORCE_TOKEN_REFRESH_DAYS, args>>
authVars == <<now, store, minted, creds, creds_origin, creds_data, current_time, retry_count,
              refresh_site, youtube, refresh_calls, refresh_calls_loaded,
              prompts, removes, refreshed_token, fetched, exchange,
              run_calls, refresh_error>>
tripVars == <<persisted, token_file, reloaded, trip_pc>>
vars == <<configVars, pc, exit_kind, authVars, uploadVars, tripVars>>

\* ------------------------------------------------ credentials and the store

\* creds = None
NoCreds == [set |-> FALSE, token |-> None, refresh_token |-> FALSE, expiry |-> None]

\* a Credentials object: access token, refresh token present or not, expiry
Cred(tok, rt, exp) == [set |-> TRUE, token |-> tok, refresh_token |-> rt, expiry |-> exp]

\* the store file: absent, or content that the loader rejects with a
\* ValueError (not JSON, a required key missing) or with another exception
\* (JSON that is no object), or a credential record
NoFile == [exists |-> FALSE, parse |-> "none", rec |-> NoCreds]
BadFile(kind) == [exists |-> TRUE, parse |-> kind, rec |-> NoCreds]
FileOf(c) == [exists |-> TRUE, parse |-> "ok", rec |-> c]

\* json.dump(json.loads(creds.to_json()), token) / token.write(creds.to_json())
Persist_nothing(c) == BadFile("truncated")
Persist_unwritten(c) == NoFile
Persist_no_expiry(c) == FileOf([c EXCEPT !.expiry = None])
Persist(c) == FileOf(c)

\* os.remove(OAUTH2_STORAGE_FILE)
Remove == NoFile

\* open(OAUTH2_STORAGE_FILE, 'w'): the file exists and is empty until the
\* content is written and the file closed; json.load rejects it
OpenForWrite == BadFile("truncated")

\* creds.expired: an expiry is set and has been reached
expired(c, t) == c.expiry # None /\ t >= c.expiry

\* creds.valid: there is an access token and it is not expired
valid(c, t) == c.token # None /\ ~expired(c, t)

\* `not creds or not creds.valid`
NotCredsOrInvalid(c, t) == ~c.set \/ ~valid(c, t)

\* lines 161-176 of youtube-upload.py: should_refresh for loaded credentials
should_refresh(c, t) ==
    IF ~c.refresh_token THEN TRUE
    ELSE IF c.expiry # None
         THEN \/ expired(c, t)
              \/ c.expiry - t < RefreshMargin
              \/ c.expiry - t <= FORCE_TOKEN_REFRESH_DAYS * SecondsPerDay
              \/ args.force_refresh
         ELSE TRUE

\* line 178: `should_refresh and creds and creds.refresh_token`
ShallRefreshLoaded_any(c, t) == should_refresh(c, t) /\ c.set
ShallRefreshLoaded(c, t) == should_refresh(c, t) /\ c.set /\ c.refresh_token

\* `while retry_count < MAX_RETRIES` of refresh_token_with_retry
MayAttemptRefresh_le(n) == n <= MAX_RETRIES
MayAttemptRefresh(n) == n < MAX_RETRIES

\* 2 ** n
RECURSIVE Pow2(_)
Pow2(n) == IF n = 0 THEN 1 ELSE 2 * Pow2(n - 1)

\* lifetimes the token endpoint grants: none left, or an hour
ExpiresIn == {0, DefaultLifetime}

\* failures of creds.refresh(): HttpError, RefreshError, URLError, any other
RefreshFailures == {"HttpError", "RefreshError", "URLError", "Exception"}

\* ------------------------------- get_authenticated_service, youtube-upload.py

\* os.path.exists(OAUTH2_STORAGE_FILE) is false
LoadAbsent ==
    /\ pc = "load" /\ script = ScriptNew
    /\ ~store.exists
    /\ pc' = "check_valid"
    /\ UNCHANGED <<configVars, tripVars, exit_kind, authVars, uploadVars>>

\* json.load or from_authorized_user_info raises ValueError / JSONDecodeError
LoadValueError ==
    /\ pc = "load" /\ script = ScriptNew
    /\ store.exists /\ store.parse \in {"ValueError", "truncated"}
    /\ store' = Remove
    /\ removes' = removes + 1
    /\ creds' = NoCreds
    /\ pc' = "check_valid"
    /\ UNCHANGED <<configVars, tripVars, exit_kind, uploadVars, now, minted, creds_data,
                   current_time, retry_count, refresh_site, youtube,
                   refresh_calls, refresh_calls_loaded, prompts,
                   refreshed_token, fetched, exchange,
                   run_calls, refresh_error>>
    /\ creds_origin' = "none"

\* any other exception while loading: the content is JSON but no object, or
\* the record has no token (creds_data.get('token', '')[0:10] on None)
LoadUnexpectedError ==
    /\ pc = "load" /\ script = ScriptNew
    /\ store.exists
    /\ \/ store.parse = "Exception"
       \/ store.parse = "ok" /\ store.rec.token = None
    /\ store' = Remove
    /\ removes' = removes + 1
    /\ creds' = NoCreds
    /\ pc' = "check_valid"
    /\ UNCHANGED <<configVars, tripVars, exit_kind, uploadVars, now, minted, creds_data,
                   current_time, retry_count, refresh_site, youtube,
                   refresh_calls, refresh_calls_loaded, prompts,
                   refreshed_token, fetched, exchange,
                   run_calls, refresh_error>>
    /\ creds_origin' = "none"

\* the record loads; should_refresh is computed and, with a refresh token,
\* refresh_token_with_retry is entered
LoadRecord ==
    /\ pc = "load" /\ script = ScriptNew
    /\ store.exists /\ store.parse = "ok" /\ store.rec.token # None
    /\ creds' = store.rec
    /\ creds_data' = store.rec
    /\ current_time' = now
    /\ IF ShallRefreshLoaded(store.rec, now)
       THEN /\ pc' = "refresh"
            /\ refresh_site' = "load"
            /\ retry_count' = 0
            /\ run_calls' = 0
            /\ refresh_error' = "none"
       ELSE /\ pc' = "check_valid"
            /\ UNCHANGED <<refresh_site, retry_count, run_calls, refresh_error>>
    /\ UNCHANGED <<configVars, tripVars, exit_kind, uploadVars, now, store, minted, youtube,
                   refresh_calls, refresh_calls_loaded, prompts, removes,
                   refreshed_token, fetched, exchange>>
    /\ creds_origin' = "store"

\* one iteration of refresh_token_with_retry in which creds.refresh succeeds:
\* the store file is opened for writing
RefreshSucceeds ==
    /\ pc = "refresh"
    /\ MayAttemptRefresh(retry_count)
    /\ \E life \in ExpiresIn :
         creds' = Cred(minted + 1, creds.refresh_token, now + life)
    /\ minted' = minted + 1
    /\ refreshed_token' = minted + 1
    /\ refresh_calls' = refresh_calls + 1
    /\ run_calls' = run_calls + 1
    /\ refresh_error' = "none"
    /\ refresh_calls_loaded' =
          refresh_calls_loaded + (IF creds_origin = "store" THEN 1 ELSE 0)
    /\ store' = OpenForWrite
    /\ pc' = "save_refreshed"
    /\ UNCHANGED <<configVars, tripVars, exit_kind, uploadVars, now, creds_origin,
                   creds_data, current_time, retry_count, refresh_site,
                   youtube, prompts, removes, fetched, exchange>>

\* json.dump(json.loads(creds.to_json()), token); the file is closed and
\* refresh_token_with_retry returns True
SaveRefreshed ==
    /\ pc = "save_refreshed"
    /\ store' = Persist(creds)
    /\ pc' = "refresh_returned"
    /\ UNCHANGED <<configVars, tripVars, exit_kind, uploadVars, now, minted, creds,
                   creds_origin, creds_data, current_time, retry_count,
                   refresh_site, youtube, refresh_calls, refresh_calls_loaded,
                   prompts, removes, refreshed_token, fetched, exchange,
                   run_calls, refresh_error>>

\* the caller after True: at line 185 credentials that are still invalid are
\* dropped and the store removed; at line 232 nothing is checked
RefreshReturned ==
    /\ pc = "refresh_returned"
    /\ IF refresh_site = "load"
       THEN /\ pc' = "check_valid"
            /\ IF ~valid(creds, now)
               THEN /\ store' = Remove
                    /\ removes' = removes + 1
                    /\ creds' = NoCreds
                    /\ creds_origin' = "none"
               ELSE UNCHANGED <<store, removes, creds, creds_origin>>
       ELSE /\ pc' = "build"
            /\ UNCHANGED <<store, removes, creds, creds_origin>>
    /\ refresh_site' = ""
    /\ UNCHANGED <<configVars, tripVars, exit_kind, uploadVars, now, minted, creds_data,
                   current_time, retry_count, youtube, refresh_calls,
                   refresh_calls_loaded, prompts, refreshed_token, fetched,
                   exchange,
                   run_calls, refresh_error>>

\* one iteration in which creds.refresh raises: every exception is caught,
\* the counter grows and the function sleeps 2 ** retry_count + random()
RefreshFails ==
    /\ pc = "refresh"
    /\ MayAttemptRefresh(retry_count)
    /\ \E e \in RefreshFailures, jitter \in {0, 1} :
         /\ refresh_error' = e
         /\ now' = now + Pow2(retry_count + 1) + jitter
    /\ refresh_calls' = refresh_calls + 1
    /\ run_calls' = run_calls + 1
    /\ refresh_calls_loaded' =
          refresh_calls_loaded + (IF creds_origin = "store" THEN 1 ELSE 0)
    /\ retry_count' = retry_count + 1
    /\ UNCHANGED <<creds_origin, configVars, tripVars, pc, exit_kind, uploadVars, store, minted, creds,
                   creds_data, current_time, refresh_site, youtube, prompts,
                   removes,
                   refreshed_token, fetched, exchange>>

\* the loop condition fails: refresh_token_with_retry returns False; the
\* caller removes the store and, at line 232, exits
RefreshGivesUp ==
    /\ pc = "refresh"
    /\ ~MayAttemptRefresh(retry_count)
    /\ refresh_error' = "none"
    /\ store' = Remove
    /\ removes' = removes + 1
    /\ IF refresh_site = "load"
       THEN /\ creds' = NoCreds
            /\ pc' = "check_valid"
            /\ UNCHANGED exit_kind
       ELSE /\ pc' = "exit"
            /\ exit_kind' = "sys.exit:auth"
            /\ UNCHANGED creds
    /\ refresh_site' = ""
    /\ UNCHANGED <<configVars, tripVars, uploadVars, now, minted, creds_data, current_time,
                   retry_count, youtube, refresh_calls, refresh_calls_loaded,
                   prompts,
                   refreshed_token, fetched, exchange,
                   run_calls>>
    /\ creds_origin' = (IF creds'.set THEN creds_origin ELSE "none")

\* credentials that flow.fetch_token can deliver at time t: a new access
\* token, a refresh token or none, an expiry or none
FlowCredentials(t) ==
    {Cred(minted + 1, rt, exp) :
        rt \in BOOLEAN, exp \in {None} \cup {t + life : life \in ExpiresIn}}

\* `if not creds.expiry: creds.expiry = now + timedelta(seconds=3600)`
WithDefaultExpiry_unset(c, t) == c
WithDefaultExpiry(c, t) ==
    IF c.expiry = None THEN [c EXCEPT !.expiry = t + DefaultLifetime] ELSE c

\* line 199 holds; the operator is prompted, the code is exchanged, the
\* credentials get an expiry and the store file is opened for writing
InteractiveSucceeds ==
    /\ pc = "check_valid" /\ script = ScriptNew
    /\ NotCredsOrInvalid(creds, now)
    /\ prompts' = prompts + 1
    /\ minted' = minted + 1
    /\ \E c \in FlowCredentials(now) :
         /\ fetched' = c
         /\ creds' = WithDefaultExpiry(c, now)
    /\ exchange' = "ok"
    /\ store' = OpenForWrite
    /\ pc' = "save_flow"
    /\ UNCHANGED <<configVars, tripVars, exit_kind, uploadVars, now, creds_data,
                   current_time, retry_count, refresh_site, youtube,
                   refresh_calls, refresh_calls_loaded, removes,
                   refreshed_token,
                   run_calls, refresh_error>>
    /\ creds_origin' = "flow"

\* line 224: json.dump(json.loads(creds.to_json()), token); the file is closed
SaveFlow ==
    /\ pc = "save_flow"
    /\ store' = Persist(creds)
    /\ pc' = "final_check"
    /\ UNCHANGED <<configVars, tripVars, exit_kind, uploadVars, now, minted, creds,
                   creds_origin, creds_data, current_time, retry_count,
                   refresh_site, youtube, refresh_calls, refresh_calls_loaded,
                   prompts, removes, refreshed_token, fetched, exchange,
                   run_calls, refresh_error>>

\* flow.fetch_token raises: sys.exit(1)
InteractiveFails_logged ==
    /\ pc = "check_valid" /\ script = ScriptNew
    /\ NotCredsOrInvalid(creds, now)
    /\ prompts' = prompts + 1
    /\ exchange' = "failed"
    /\ pc' = "final_check"
    /\ UNCHANGED <<configVars, tripVars, exit_kind, uploadVars, now, store, minted,
                   creds, creds_origin, creds_data, current_time, retry_count,
                   refresh_site, youtube, refresh_calls, refresh_calls_loaded,
                   removes, refreshed_token, fetched,
                   run_calls, refresh_error>>
InteractiveFails ==
    /\ pc = "check_valid" /\ script = ScriptNew
    /\ NotCredsOrInvalid(creds, now)
    /\ prompts' = prompts + 1
    /\ exchange' = "failed"
    /\ pc' = "exit"
    /\ exit_kind' = "sys.exit:auth"
    /\ UNCHANGED <<creds_origin, configVars, tripVars, uploadVars, now, store, minted, creds, creds_data,
                   current_time, retry_count, refresh_site, youtube,
                   refresh_calls, refresh_calls_loaded, removes,
                   refreshed_token, fetched,
                   run_calls, refresh_error>>

\* line 199 does not hold: the credentials are used as they are
InteractiveSkipped ==
    /\ pc = "check_valid" /\ script = ScriptNew
    /\ ~NotCredsOrInvalid(creds, now)
    /\ pc' = "final_check"
    /\ UNCHANGED <<configVars, tripVars, exit_kind, authVars, uploadVars>>

\* line 230: a last refresh for invalid credentials that can be refreshed
FinalCheck ==
    /\ pc = "final_check"
    /\ IF creds.set /\ (~valid(creds, now) \/ expired(creds, now)) /\ creds.refresh_token
       THEN /\ pc' = "refresh"
            /\ refresh_site' = "final"
            /\ retry_count' = 0
            /\ run_calls' = 0
            /\ refresh_error' = "none"
       ELSE /\ pc' = "build"
            /\ UNCHANGED <<refresh_site, retry_count, run_calls, refresh_error>>
    /\ UNCHANGED <<creds_origin, configVars, tripVars, exit_kind, uploadVars, now, store, minted, creds,
                   creds_data, current_time, youtube, refresh_calls,
                   refresh_calls_loaded, prompts, removes,
                   refreshed_token, fetched, exchange>>

\* return build(YOUTUBE_API_SERVICE_NAME, YOUTUBE_API_VERSION, credentials=creds)
Build ==
    /\ pc = "build"
    /\ youtube' = creds
    /\ pc' = "main"
    /\ UNCHANGED <<creds_origin, configVars, tripVars, exit_kind, uploadVars, now, store, minted, creds,
                   creds_data, current_time, retry_count, refresh_site,
                   refresh_calls, refresh_calls_loaded, prompts, removes,
                   refreshed_token, fetched, exchange,
                   run_calls, refresh_error>>

\* ------------------------------- get_authenticated_service, youtube_upload.py

\* os.path.exists(OAUTH2_STORAGE_FILE) is false
OldLoadAbsent ==
    /\ pc = "load" /\ script = ScriptOld
    /\ ~store.exists
    /\ pc' = "check_valid"
    /\ UNCHANGED <<configVars, tripVars, exit_kind, authVars, uploadVars>>

\* from_authorized_user_file raises ValueError: the file is removed
OldLoadValueError ==
    /\ pc = "load" /\ script = ScriptOld
    /\ store.exists /\ store.parse \in {"ValueError", "truncated"}
    /\ store' = Remove
    /\ removes' = removes + 1
    /\ pc' = "check_valid"
    /\ UNCHANGED <<configVars, tripVars, exit_kind, uploadVars, now, minted, creds,
                   creds_origin, creds_data, current_time, retry_count,
                   refresh_site, youtube, refresh_calls, refresh_calls_loaded,
                   prompts,
                   refreshed_token, fetched, exchange,
                   run_calls, refresh_error>>

\* from_authorized_user_file raises an exception that is no ValueError:
\* `except ValueError` does not catch it and it leaves the function
OldLoadUnexpectedError ==
    /\ pc = "load" /\ script = ScriptOld
    /\ store.exists /\ store.parse = "Exception"
    /\ pc' = "exit"
    /\ exit_kind' = "Exception"
    /\ UNCHANGED <<configVars, tripVars, authVars, uploadVars>>

\* the record loads
OldLoadRecord ==
    /\ pc = "load" /\ script = ScriptOld
    /\ store.exists /\ store.parse = "ok"
    /\ creds' = store.rec
    /\ creds_origin' = "store"
    /\ creds_data' = store.rec
    /\ pc' = "check_valid"
    /\ UNCHANGED <<configVars, tripVars, exit_kind, uploadVars, now, store, minted,
                   current_time, retry_count, refresh_site, youtube,
                   refresh_calls, refresh_calls_loaded, prompts, removes,
                   refreshed_token, fetched, exchange,
                   run_calls, refresh_error>>

\* `creds and creds.expired and creds.refresh_token`
OldShouldRefresh(c, t) == c.set /\ expired(c, t) /\ c.refresh_token

\* line 91 does not hold: the loaded credentials are used as they are
OldInteractiveSkipped ==
    /\ pc = "check_valid" /\ script = ScriptOld
    /\ ~NotCredsOrInvalid(creds, now)
    /\ pc' = "build"
    /\ UNCHANGED <<configVars, tripVars, exit_kind, authVars, uploadVars>>

\* creds.refresh(Request()) succeeds; `if creds:` holds and the store file
\* is opened for writing
OldRefreshSucceeds ==
    /\ pc = "check_valid" /\ script = ScriptOld
    /\ NotCredsOrInvalid(creds, now)
    /\ OldShouldRefresh(creds, now)
    /\ \E life \in ExpiresIn :
         creds' = Cred(minted + 1, creds.refresh_token, now + life)
    /\ minted' = minted + 1
    /\ refreshed_token' = minted + 1
    /\ refresh_calls' = refresh_calls + 1
    /\ refresh_calls_loaded' =
          refresh_calls_loaded + (IF creds_origin = "store" THEN 1 ELSE 0)
    /\ store' = OpenForWrite
    /\ pc' = "save_old"
    /\ UNCHANGED <<configVars, tripVars, exit_kind, uploadVars, now, creds_origin,
                   creds_data, current_time, retry_count, refresh_site, youtube,
                   prompts, removes, fetched, exchange,
                   run_calls, refresh_error>>

\* line 127: token.write(creds.to_json()); the file is closed
OldSave ==
    /\ pc = "save_old"
    /\ store' = Persist(creds)
    /\ pc' = "build"
    /\ UNCHANGED <<configVars, tripVars, exit_kind, uploadVars, now, minted, creds,
                   creds_origin, creds_data, current_time, retry_count,
                   refresh_site, youtube, refresh_calls, refresh_calls_loaded,
                   prompts, removes, refreshed_token, fetched, exchange,
                   run_calls, refresh_error>>

\* creds.refresh(Request()) raises: nothing catches it
OldRefreshFails ==
    /\ pc = "check_valid" /\ script = ScriptOld
    /\ NotCredsOrInvalid(creds, now)
    /\ OldShouldRefresh(creds, now)
    /\ refresh_calls' = refresh_calls + 1
    /\ refresh_calls_loaded' =
          refresh_calls_loaded + (IF creds_origin = "store" THEN 1 ELSE 0)
    /\ pc' = "exit"
    /\ exit_kind' = "Exception"
    /\ UNCHANGED <<configVars, tripVars, uploadVars, now, store, minted, creds,
                   creds_origin, creds_data, current_time, retry_count,
                   refresh_site, youtube, prompts, removes,
                   refreshed_token, fetched, exchange,
                   run_calls, refresh_error>>

\* the flow delivers credentials (run_local_server, or fetch_token with the
\* code the operator typed); `if creds:` holds and the store file is opened
\* for writing
OldInteractiveSucceeds ==
    /\ pc = "check_valid" /\ script = ScriptOld
    /\ NotCredsOrInvalid(creds, now)
    /\ ~OldShouldRefresh(creds, now)
    /\ prompts' = prompts + 1
    /\ minted' = minted + 1
    /\ \E c \in FlowCredentials(now) :
         /\ fetched' = c
         /\ creds' = c
    /\ exchange' = "ok"
    /\ store' = OpenForWrite
    /\ creds_origin' = "flow"
    /\ pc' = "save_old"
    /\ UNCHANGED <<configVars, tripVars, exit_kind, uploadVars, now, creds_data,
                   current_time, retry_count, refresh_site, youtube,
                   refresh_calls, refresh_calls_loaded, removes,
                   refreshed_token,
                   run_calls, refresh_error>>

\* flow.fetch_token raises (with --nolocalauth, or after run_local_server
\* failed): nothing catches it
OldInteractiveFails ==
    /\ pc = "check_valid" /\ script = ScriptOld
    /\ NotCredsOrInvalid(creds, now)
    /\ ~OldShouldRefresh(creds, now)
    /\ prompts' = prompts + 1
    /\ exchange' = "failed"
    /\ pc' = "exit"
    /\ exit_kind' = "Exception"
    /\ UNCHANGED <<configVars, tripVars, uploadVars, now, store, minted, creds,
                   creds_origin, creds_data, current_time, retry_count,
                   refresh_site, youtube, refresh_calls, refresh_calls_loaded,
                   removes, refreshed_token, fetched,
                   run_calls, refresh_error>>

\* ------------------------------------------------------- resumable_upload

\* exception classes of RETRIABLE_EXCEPTIONS
RETRIABLE_EXCEPTIONS ==
    {"HttpLib2Error", "IOError", "NotConnected", "IncompleteRead",
     "ImproperConnectionState", "CannotSendRequest", "CannotSendHeader",
     "ResponseNotReady", "BadStatusLine"}

\* e.resp.status in RETRIABLE_STATUS_CODES
IsRetriableStatus(status) == status \in RETRIABLE_STATUS_CODES

\* what a response without 'id' makes the script raise
UnexpectedResponseRaises_io(s) == "IOError"
UnexpectedResponseRaises(s) == IF s = ScriptNew THEN "Exception" ELSE "SystemExit"

\* if retry > MAX_RETRIES: sys.exit(...)
RetryExceeded_never(r) == FALSE
RetryExceeded_ge(r) == r >= MAX_RETRIES
RetryExceeded(r) == r > MAX_RETRIES

\* resolution of random.random(): it returns k / RandomSteps, 0 <= k < RandomSteps
RandomSteps == 2
Random == 0 .. (RandomSteps - 1)

\* max_sleep = 2 ** retry
MaxSleep(r) == Pow2(r)

\* sleep_seconds = random.random() * max_sleep, in units of 1/RandomSteps
\* second, for random.random() = k / RandomSteps
SleepSeconds_additive(k, m) == m * RandomSteps + k
SleepSeconds(k, m) == k * m

\* `while response is None`: the loop goes on, or the function ends
LoopTest(resp) ==
    IF resp = "None"
    THEN pc' = "next_chunk" /\ UNCHANGED upload_state
    ELSE /\ pc' = "uploaded"
         /\ upload_state' = IF resp = "id" THEN "Completed" ELSE "Failed(Terminal)"

\* the `if error is not None:` block that ends every loop iteration which
\* neither returned nor raised, and the loop test after it; err and resp are
\* the values of error and response after the try statement
RetryBlock(err, resp) ==
    IF err = "None"
    THEN /\ UNCHANGED <<retry, sleeps, max_sleep, sleep_seconds, exit_kind>>
         /\ LoopTest(resp)
    ELSE /\ retry' = retry + 1
         /\ IF RetryExceeded(retry + 1)
            THEN /\ pc' = "exit"
                 /\ exit_kind' = "sys.exit:retries"
                 /\ upload_state' = "Failed(MaxRetriesExceeded)"
                 /\ UNCHANGED <<sleeps, max_sleep, sleep_seconds>>
            ELSE /\ sleeps' = sleeps + 1
                 /\ max_sleep' = MaxSleep(retry + 1)
                 /\ \E k \in Random : sleep_seconds' = SleepSeconds(k, MaxSleep(retry + 1))
                 /\ UNCHANGED exit_kind
                 /\ LoopTest(resp)

\* next_chunk() returns (status, response) with 'id' in response
ChunkFinal ==
    /\ pc = "next_chunk"
    /\ chunk_calls' = chunk_calls + 1
    /\ last_chunk' = "final"
    /\ last_status' = 0
    /\ progress' = FileLen
    /\ response' = "id"
    /\ UNCHANGED <<configVars, tripVars, authVars, postVars, error, partial_acks, failures, run, max_run>>
    /\ IF script = ScriptNew
       THEN \* return response
            /\ pc' = "uploaded"
            /\ upload_state' = "Completed"
            /\ UNCHANGED <<retry, sleeps, max_sleep, sleep_seconds, exit_kind>>
       ELSE \* print(...) and go on with the rest of the loop body
            RetryBlock(error, "id")

\* next_chunk() returns a response that has no 'id': the script raises
\* Exception (youtube-upload.py) or SystemExit (youtube_upload.py) inside
\* the try statement, whose except clauses catch HttpError and
\* RETRIABLE_EXCEPTIONS only
ChunkMalformed ==
    /\ pc = "next_chunk"
    /\ chunk_calls' = chunk_calls + 1
    /\ last_chunk' = "malformed"
    /\ last_status' = 0
    /\ response' = "no_id"
    /\ UNCHANGED <<configVars, tripVars, authVars, postVars, progress, partial_acks, run, max_run>>
    /\ IF UnexpectedResponseRaises(script) \in RETRIABLE_EXCEPTIONS
       THEN /\ error' = "retriable error"
            /\ failures' = failures + 1
            /\ RetryBlock("retriable error", "no_id")
       ELSE /\ pc' = "exit"
            /\ exit_kind' = UnexpectedResponseRaises(script)
            /\ upload_state' = "Failed(Terminal)"
            /\ UNCHANGED <<error, retry, sleeps, max_sleep, sleep_seconds, failures>>

\* next_chunk() returns (status, None): acknowledged, more remaining; the
\* server reports more progress than before and less than the whole file
ChunkPartial ==
    /\ pc = "next_chunk"
    /\ \E p \in (progress + 1) .. (FileLen - 1) :
          progress' = p
    /\ chunk_calls' = chunk_calls + 1
    /\ last_chunk' = "partial"
    /\ last_status' = 0
    /\ partial_acks' = partial_acks + 1
    /\ run' = 0
    /\ response' = "None"
    /\ UNCHANGED <<configVars, tripVars, authVars, postVars, error, failures, max_run>>
    /\ RetryBlock(error, "None")

\* next_chunk() raises HttpError
ChunkHttpError ==
    /\ pc = "next_chunk"
    /\ \E status \in HttpStatuses :
          /\ chunk_calls' = chunk_calls + 1
          /\ last_chunk' = "HttpError"
          /\ last_status' = status
          /\ UNCHANGED <<configVars, tripVars, authVars, postVars, response, progress, partial_acks>>
          /\ IF IsRetriableStatus(status)
             THEN /\ error' = "retriable HTTP error"
                  /\ failures' = failures + 1
                  /\ run' = run + 1
                  /\ max_run' = IF run + 1 > max_run THEN run + 1 ELSE max_run
                  /\ RetryBlock("retriable HTTP error", response)
             ELSE \* raise
                  /\ pc' = "exit"
                  /\ exit_kind' = "HttpError"
                  /\ upload_state' = "Failed(Terminal)"
                  /\ UNCHANGED <<error, retry, sleeps, max_sleep, sleep_seconds,
                                 failures, run, max_run>>

\* next_chunk() raises one of RETRIABLE_EXCEPTIONS
ChunkRetriableException ==
    /\ pc = "next_chunk"
    /\ \E e \in RETRIABLE_EXCEPTIONS :
          last_chunk' = "transport"
    /\ chunk_calls' = chunk_calls + 1
    /\ last_status' = 0
    /\ error' = "retriable error"
    /\ failures' = failures + 1
    /\ run' = run + 1
    /\ max_run' = IF run + 1 > max_run THEN run + 1 ELSE max_run
    /\ UNCHANGED <<configVars, tripVars, authVars, postVars, response, progress, partial_acks>>
    /\ RetryBlock("retriable error", response)

\* ----------------------- initialize_upload after resumable_upload returned
\* (youtube-upload.py only; youtube_upload.py ends with the upload)

\* failures of execute() that are no HttpError: the transport errors of
\* RETRIABLE_EXCEPTIONS
PostUploadFailures == RETRIABLE_EXCEPTIONS

\* upload_thumbnail catches HttpError only
ThumbnailCatches(e) == e = "HttpError"

\* `if options.thumbnail:` does not hold
ThumbnailSkipped ==
    /\ pc = "uploaded" /\ script = ScriptNew /\ response = "id"
    /\ ~args.thumbnail
    /\ pc' = "thumbnail_done"
    /\ UNCHANGED <<configVars, tripVars, exit_kind, authVars, uploadVars>>

\* upload_thumbnail: request.execute() returns
ThumbnailOk ==
    /\ pc = "uploaded" /\ script = ScriptNew /\ response = "id"
    /\ args.thumbnail
    /\ thumbnail_calls' = thumbnail_calls + 1
    /\ thumbnail_result' = "ok"
    /\ pc' = "thumbnail_done"
    /\ UNCHANGED <<configVars, tripVars, exit_kind, authVars, response, error, retry,
                   progress, chunk_calls, sleeps, partial_acks, failures, run,
                   max_run, last_chunk, last_status, upload_state, max_sleep,
                   sleep_seconds, playlist_calls, playlist_result>>

\* upload_thumbnail: request.execute() raises HttpError, which is logged
ThumbnailHttpError ==
    /\ pc = "uploaded" /\ script = ScriptNew /\ response = "id"
    /\ args.thumbnail
    /\ ThumbnailCatches("HttpError")
    /\ thumbnail_calls' = thumbnail_calls + 1
    /\ thumbnail_result' = "HttpError"
    /\ pc' = "thumbnail_done"
    /\ UNCHANGED <<configVars, tripVars, exit_kind, authVars, response, error, retry,
                   progress, chunk_calls, sleeps, partial_acks, failures, run,
                   max_run, last_chunk, last_status, upload_state, max_sleep,
                   sleep_seconds, playlist_calls, playlist_result>>

\* upload_thumbnail: request.execute() raises an exception that the except
\* clause does not catch: it leaves initialize_upload and main, which
\* catches HttpError only
ThumbnailRaises ==
    /\ pc = "uploaded" /\ script = ScriptNew /\ response = "id"
    /\ args.thumbnail
    /\ thumbnail_calls' = thumbnail_calls + 1
    /\ thumbnail_result' = "error"
    /\ \E e \in PostUploadFailures : ~ThumbnailCatches(e)
    /\ pc' = "exit"
    /\ exit_kind' = "Exception"
    /\ UNCHANGED <<configVars, tripVars, authVars, response, error, retry,
                   progress, chunk_calls, sleeps, partial_acks, failures, run,
                   max_run, last_chunk, last_status, upload_state, max_sleep,
                   sleep_seconds, playlist_calls, playlist_result>>

\* `if options.playlistId:` does not hold
PlaylistSkipped ==
    /\ pc = "thumbnail_done"
    /\ ~args.playlistId
    /\ pc' = "done"
    /\ UNCHANGED <<configVars, tripVars, exit_kind, authVars, uploadVars>>

\* add_video_to_playlist: add_video_request.execute() returns
PlaylistOk ==
    /\ pc = "thumbnail_done"
    /\ args.playlistId
    /\ playlist_calls' = playlist_calls + 1
    /\ playlist_result' = "ok"
    /\ pc' = "done"
    /\ UNCHANGED <<configVars, tripVars, exit_kind, authVars, response, error, retry,
                   progress, chunk_calls, sleeps, partial_acks, failures, run,
                   max_run, last_chunk, last_status, upload_state, max_sleep,
                   sleep_seconds, thumbnail_calls, thumbnail_result>>

\* add_video_request.execute() raises HttpError: nothing catches it before
\* `except HttpError` of main, which logs it
PlaylistHttpError ==
    /\ pc = "thumbnail_done"
    /\ args.playlistId
    /\ playlist_calls' = playlist_calls + 1
    /\ playlist_result' = "HttpError"
    /\ pc' = "done"
    /\ UNCHANGED <<configVars, tripVars, exit_kind, authVars, response, error, retry,
                   progress, chunk_calls, sleeps, partial_acks, failures, run,
                   max_run, last_chunk, last_status, upload_state, max_sleep,
                   sleep_seconds, thumbnail_calls, thumbnail_result>>

\* add_video_request.execute() raises another exception: nothing catches it
PlaylistRaises ==
    /\ pc = "thumbnail_done"
    /\ args.playlistId
    /\ playlist_calls' = playlist_calls + 1
    /\ playlist_result' = "error"
    /\ pc' = "exit"
    /\ exit_kind' = "Exception"
    /\ UNCHANGED <<configVars, tripVars, authVars, response, error, retry,
                   progress, chunk_calls, sleeps, partial_acks, failures, run,
                   max_run, last_chunk, last_status, upload_state, max_sleep,
                   sleep_seconds, thumbnail_calls, thumbnail_result>>

\* ------------------------------------------------------------ the process

\* first moment the clock is read
T0 == 100000

\* largest force_token_refresh_days read from config.cfg
MaxForceDays == 1

\* expiry of a stored record, relative to the start of the process
LoadedExpiryOffsets == {-1, 0, 599, 600, 86400, 86401}

\* what the store file can hold when the process starts
InitialStores ==
    {NoFile, BadFile("ValueError"), BadFile("Exception")} \cup
    {FileOf(Cred(tok, rt, exp)) :
        tok \in {None, 1}, rt \in BOOLEAN,
        exp \in {None} \cup {T0 + d : d \in LoadedExpiryOffsets}}

InitConfig ==
    /\ script \in Scripts
    /\ MAX_RETRIES \in (IF script = ScriptNew THEN 0 .. MaxCeiling ELSE {MAX_RETRIES_old})
    /\ FORCE_TOKEN_REFRESH_DAYS \in (IF script = ScriptNew THEN 0 .. MaxForceDays ELSE {0})
    /\ args \in (IF script = ScriptNew
                 THEN [force_refresh : BOOLEAN, nolocalauth : {FALSE},
                       no_upload : BOOLEAN, thumbnail : BOOLEAN,
                       playlistId : BOOLEAN]
                 ELSE [force_refresh : {FALSE}, nolocalauth : BOOLEAN,
                       no_upload : {FALSE}, thumbnail : {FALSE},
                       playlistId : {FALSE}])

\* no record is followed through the store file
TripIdle ==
    /\ persisted = "none"
    /\ token_file = "none"
    /\ reloaded = "none"
    /\ trip_pc = "idle"

InitUploadVars ==
    /\ response = "None"
    /\ error = "None"
    /\ retry = 0
    /\ progress = 0
    /\ chunk_calls = 0
    /\ sleeps = 0
    /\ partial_acks = 0
    /\ failures = 0
    /\ run = 0
    /\ max_run = 0
    /\ last_chunk = "none"
    /\ last_status = 0
    /\ upload_state = "Initiating"
    /\ max_sleep = 0
    /\ sleep_seconds = 0
    /\ thumbnail_calls = 0
    /\ thumbnail_result = "none"
    /\ playlist_calls = 0
    /\ playlist_result = "none"

\* the process starts: nothing loaded yet
Init ==
    /\ InitConfig
    /\ pc = "load"
    /\ exit_kind = ""
    /\ now = T0
    /\ store \in InitialStores
    /\ minted = 1
    /\ creds = NoCreds
    /\ creds_origin = "none"
    /\ creds_data = NoCreds
    /\ current_time = None
    /\ retry_count = 0
    /\ refresh_site = ""
    /\ youtube = NoCreds
    /\ refresh_calls = 0
    /\ refresh_calls_loaded = 0
    /\ prompts = 0
    /\ removes = 0
    /\ refreshed_token = None
    /\ fetched = NoCreds
    /\ exchange = "none"
    /\ run_calls = 0
    /\ refresh_error = "none"
    /\ InitUploadVars
    /\ TripIdle

\* --no-upload: main logs "Authentication completed. No video uploaded."
NoUpload ==
    /\ pc = "main"
    /\ args.no_upload
    /\ pc' = "done"
    /\ UNCHANGED <<configVars, tripVars, exit_kind, authVars, uploadVars>>

\* initialize_upload builds the request and calls resumable_upload
StartUpload ==
    /\ pc = "main"
    /\ ~args.no_upload
    /\ pc' = "next_chunk"
    /\ upload_state' = "ChunkInFlight"
    /\ response' = "None"
    /\ error' = "None"
    /\ retry' = 0
    /\ UNCHANGED <<configVars, tripVars, exit_kind, authVars, progress, chunk_calls, sleeps,
                   partial_acks, failures, run, max_run, last_chunk, last_status,
                   max_sleep, sleep_seconds, postVars>>

AuthNext ==
    \/ LoadAbsent \/ LoadValueError \/ LoadUnexpectedError \/ LoadRecord
    \/ RefreshSucceeds \/ SaveRefreshed \/ RefreshReturned
    \/ RefreshFails \/ RefreshGivesUp
    \/ InteractiveSucceeds \/ SaveFlow \/ InteractiveFails \/ InteractiveSkipped
    \/ FinalCheck \/ Build
    \/ OldLoadAbsent \/ OldLoadValueError \/ OldLoadUnexpectedError \/ OldLoadRecord
    \/ OldInteractiveSkipped \/ OldRefreshSucceeds \/ OldRefreshFails
    \/ OldInteractiveSucceeds \/ OldInteractiveFails \/ OldSave

UploadNext ==
    \/ ChunkFinal \/ ChunkMalformed \/ ChunkPartial
    \/ ChunkHttpError \/ ChunkRetriableException

PostUploadNext ==
    \/ ThumbnailSkipped \/ ThumbnailOk \/ ThumbnailHttpError \/ ThumbnailRaises
    \/ PlaylistSkipped \/ PlaylistOk \/ PlaylistHttpError \/ PlaylistRaises

\* the process starts with the options of the upload left out
InitAuth == Init /\ ~args.no_upload /\ ~args.thumbnail /\ ~args.playlistId

\* get_authenticated_service alone, from the start of the process
SpecAuth == InitAuth /\ [][AuthNext]_vars

\* the process is killed (SIGKILL) at any point of get_authenticated_service:
\* it stops where it is and the store file stays as it is at that moment
Kill ==
    /\ pc \notin {"main", "exit", "killed"}
    /\ pc' = "killed"
    /\ exit_kind' = "SIGKILL"
    /\ UNCHANGED <<configVars, tripVars, authVars, uploadVars>>

\* get_authenticated_service in a process that can be killed
SpecAuthKill == InitAuth /\ [][AuthNext \/ Kill]_vars

\* the state in which main calls initialize_upload: the service was built
\* with valid credentials that the store holds
InitUpload ==
    /\ script \in Scripts
    /\ MAX_RETRIES \in (IF script = ScriptNew THEN 0 .. MaxCeiling ELSE {MAX_RETRIES_old})
    /\ FORCE_TOKEN_REFRESH_DAYS = 0
    /\ args \in (IF script = ScriptNew
                 THEN [force_refresh : {FALSE}, nolocalauth : {FALSE},
                       no_upload : BOOLEAN, thumbnail : BOOLEAN,
                       playlistId : BOOLEAN]
                 ELSE [force_refresh : {FALSE}, nolocalauth : {FALSE},
                       no_upload : {FALSE}, thumbnail : {FALSE},
                       playlistId : {FALSE}])
    /\ pc = "main"
    /\ exit_kind = ""
    /\ now = T0
    /\ store = FileOf(Cred(1, TRUE, T0 + DefaultLifetime))
    /\ minted = 1
    /\ creds = Cred(1, TRUE, T0 + DefaultLifetime)
    /\ creds_origin = "store"
    /\ creds_data = creds
    /\ current_time = T0
    /\ retry_count = 0
    /\ refresh_site = ""
    /\ youtube = creds
    /\ refresh_calls = 0
    /\ refresh_calls_loaded = 0
    /\ prompts = 0
    /\ removes = 0
    /\ refreshed_token = None
    /\ fetched = NoCreds
    /\ exchange = "none"
    /\ run_calls = 0
    /\ refresh_error = "none"
    /\ InitUploadVars
    /\ TripIdle

\* main after get_authenticated_service: initialize_upload, resumable_upload
\* and the calls after the upload
SpecUpload == InitUpload /\ [][NoUpload \/ StartUpload \/ UploadNext \/ PostUploadNext]_vars

\* the same where the process keeps running and every next_chunk() call
\* returns or raises: the loop of resumable_upload is not held up forever
SpecUploadFair == SpecUpload /\ WF_vars(UploadNext)

Next == AuthNext \/ NoUpload \/ StartUpload \/ UploadNext \/ PostUploadNext

\* the whole process
Spec == Init /\ [][Next]_vars

\* store files the whole process is run from: none, content that does not
\* load, an expired record with and without a refresh token, a record that
\* is good for more than a day
ProcessStores ==
    {NoFile, BadFile("ValueError"), BadFile("Exception"),
     FileOf(Cred(1, TRUE, T0 - 1)), FileOf(Cred(1, FALSE, T0 - 1)),
     FileOf(Cred(1, TRUE, T0 + SecondsPerDay + 1))}

\* the whole process for one retry ceiling per script, without forced
\* refresh, from the stores of ProcessStores
InitProcess ==
    /\ Init
    /\ script = ScriptNew => MAX_RETRIES = 1
    /\ FORCE_TOKEN_REFRESH_DAYS = 0
    /\ ~args.force_refresh
    /\ store \in ProcessStores

SpecProcess == InitProcess /\ [][Next]_vars

\* ------------------------------ a record through the store file and back

\* SCOPES of youtube-upload.py and of youtube_upload.py; both scripts read
\* the name of the store file from the same configuration key
SCOPES == {"youtube.upload", "youtube"}
SCOPES_old == {"youtube.upload"}

\* a datetime: whole seconds, microseconds, and whether it has a tzinfo
Datetime(sec, micro, aware) ==
    [second |-> sec, microsecond |-> micro, tzinfo |-> aware]

\* microseconds of an expiry: none, or some
Microseconds == {0, 500000}

\* expiry.isoformat() + "Z" as to_json writes it: "YYYY-MM-DDTHH:MM:SS",
\* ".ffffff" unless the microseconds are 0, "+00:00" for a datetime with
\* tzinfo, and "Z"
IsoformatZ(d) ==
    [seconds |-> d.second, fraction |-> d.microsecond, offset |-> d.tzinfo,
     z |-> TRUE]

\* creds.to_json(), which json.loads and json.dump carry into the file
ToJson(c) ==
    [token |-> c.token, refresh_token |-> c.refresh_token,
     scopes |-> c.scopes, expiry |-> IsoformatZ(c.expiry)]

\* expiry.rstrip("Z").split(".")[0] of from_authorized_user_info: the text
\* before the first "."
BeforeFraction(text) ==
    IF text.fraction # 0
    THEN [text EXCEPT !.fraction = 0, !.offset = FALSE, !.z = FALSE]
    ELSE [text EXCEPT !.z = FALSE]

\* datetime.strptime(text, "%Y-%m-%dT%H:%M:%S") accepts the text
Parses(text) == text.fraction = 0 /\ ~text.offset /\ ~text.z

\* Credentials.from_authorized_user_info(info, scopes): the scopes passed
\* replace those of the file, the expiry is parsed from its text
FromAuthorizedUserInfo(info, scopes) ==
    [token |-> info.token, refresh_token |-> info.refresh_token,
     scopes |-> scopes,
     expiry |-> Datetime(BeforeFraction(info.expiry).seconds, 0, FALSE)]

\* records that are written to the store file: after a refresh or an exchange
\* (expiry without tzinfo), with the default expiry of line 221
\* (datetime.now(timezone.utc): with tzinfo), by either script
PersistableRecords ==
    {[token |-> tok, refresh_token |-> rt, scopes |-> sc,
      expiry |-> Datetime(T0 + life, micro, aware)] :
        tok \in 1 .. 2, rt \in BOOLEAN, sc \in {SCOPES, SCOPES_old},
        life \in ExpiresIn, micro \in Microseconds, aware \in BOOLEAN}

\* json.dump(json.loads(creds.to_json()), token)
TripWrite ==
    /\ trip_pc = "write"
    /\ token_file' = ToJson(persisted)
    /\ trip_pc' = "load"
    /\ UNCHANGED <<configVars, pc, exit_kind, authVars, uploadVars, persisted,
                   reloaded>>

\* lines 151-154: json.load and from_authorized_user_info(creds_data, SCOPES)
TripLoad ==
    /\ trip_pc = "load"
    /\ Parses(BeforeFraction(token_file.expiry))
    /\ reloaded' = FromAuthorizedUserInfo(token_file, SCOPES)
    /\ trip_pc' = "loaded"
    /\ UNCHANGED <<configVars, pc, exit_kind, authVars, uploadVars, persisted,
                   token_file>>

\* strptime raises ValueError: line 190 catches it and removes the file
TripLoadValueError ==
    /\ trip_pc = "load"
    /\ ~Parses(BeforeFraction(token_file.expiry))
    /\ token_file' = "removed"
    /\ trip_pc' = "ValueError"
    /\ UNCHANGED <<configVars, pc, exit_kind, authVars, uploadVars, persisted,
                   reloaded>>

\* one record of PersistableRecords is about to be written by
\* youtube-upload.py
InitRoundTrip ==
    /\ script = ScriptNew
    /\ MAX_RETRIES = 0
    /\ FORCE_TOKEN_REFRESH_DAYS = 0
    /\ args = [force_refresh |-> FALSE, nolocalauth |-> FALSE,
               no_upload |-> FALSE, thumbnail |-> FALSE, playlistId |-> FALSE]
    /\ pc = "load"
    /\ exit_kind = ""
    /\ now = T0
    /\ store = NoFile
    /\ minted = 1
    /\ creds = NoCreds
    /\ creds_origin = "none"
    /\ creds_data = NoCreds
    /\ current_time = None
    /\ retry_count = 0
    /\ refresh_site = ""
    /\ youtube = NoCreds
    /\ refresh_calls = 0
    /\ refresh_calls_loaded = 0
    /\ prompts = 0
    /\ removes = 0
    /\ refreshed_token = None
    /\ fetched = NoCreds
    /\ exchange = "none"
    /\ run_calls = 0
    /\ refresh_error = "none"
    /\ InitUploadVars
    /\ persisted \in PersistableRecords
    /\ token_file = "none"
    /\ reloaded = "none"
    /\ trip_pc = "write"

\* writing a record and loading it back
SpecRoundTrip ==
    InitRoundTrip /\ [][TripWrite \/ TripLoad \/ TripLoadValueError]_vars

\* ------------------------------------------------------------- properties

\* the latest chunk call raised an HttpError whose status is none of
\* 500, 502, 503, 504
NonRetriableSeen ==
    last_chunk = "HttpError" /\ last_status \notin {500, 502, 503, 504}

\* C1: a chunk call that fails with a non-retriable HTTP error propagates the
\* error without touching the retry counter or sleeping, and after it the
\* upload issues no chunk call, no retry increment and no sleep.
C1_NonRetriablePropagates ==
    [][ /\ (chunk_calls' = chunk_calls + 1 /\ NonRetriableSeen') =>
              /\ pc' = "exit" /\ exit_kind' = "HttpError"
              /\ upload_state' = "Failed(Terminal)"
              /\ retry' = retry /\ sleeps' = sleeps
        /\ NonRetriableSeen =>
              /\ chunk_calls' = chunk_calls
              /\ retry' = retry /\ sleeps' = sleeps ]_vars

\* a non-retriable failure after a partial acknowledgment and a retriable one
C1_Witness ==
    /\ NonRetriableSeen /\ pc = "exit"
    /\ partial_acks >= 1 /\ failures >= 1

\* every chunk call so far failed with a retriable failure
AllCallsFailed == chunk_calls >= 1 /\ failures = chunk_calls

\* C2: when every chunk call fails retriably, the upload issues exactly
\* MAX_RETRIES + 1 chunk calls, sleeping after each but the last, then ends
\* with retry exhaustion and issues no chunk call after that.
C2_ExhaustionAfterCeilingPlusOne ==
    /\ [](AllCallsFailed =>
            /\ chunk_calls <= MAX_RETRIES + 1
            /\ (chunk_calls = MAX_RETRIES + 1 =>
                   /\ upload_state = "Failed(MaxRetriesExceeded)"
                   /\ exit_kind = "sys.exit:retries"
                   /\ sleeps = MAX_RETRIES)
            /\ (chunk_calls <= MAX_RETRIES =>
                   /\ pc = "next_chunk"
                   /\ sleeps = chunk_calls))
    /\ [][upload_state = "Failed(MaxRetriesExceeded)" =>
             chunk_calls' = chunk_calls]_vars

\* ceiling 2, three retriable failures: exhaustion on the third attempt
C2_Witness ==
    /\ AllCallsFailed /\ MAX_RETRIES = 2 /\ chunk_calls = 3
    /\ upload_state = "Failed(MaxRetriesExceeded)"

\* C3: the ceiling is reached only after MAX_RETRIES consecutive retriable
\* failures; failures that are each separated by a partial acknowledgment
\* never exhaust a ceiling of one or more.
C3_OnlyConsecutiveFailuresCount ==
    upload_state = "Failed(MaxRetriesExceeded)" =>
        /\ max_run >= MAX_RETRIES
        /\ (MAX_RETRIES >= 1 => max_run >= 2)

\* C4: a chunk call acknowledged with more remaining leaves the retry counter
\* unchanged and the loop goes on to the next chunk call.
C4_PartialAckKeepsRetry ==
    [][(chunk_calls' = chunk_calls + 1 /\ last_chunk' = "partial") =>
          (retry' = retry /\ pc' = "next_chunk")]_vars

\* C5: in youtube-upload.py an upload with k acknowledged calls and f
\* retriable failures, f within the ceiling, ends Completed after exactly
\* k + f chunk calls and exactly f sleeps.
C5_CallsAndSleepsAddUp ==
    script = ScriptNew =>
        /\ (upload_state = "Completed" =>
               /\ chunk_calls = (partial_acks + 1) + failures
               /\ sleeps = failures)
        /\ (upload_state = "Failed(MaxRetriesExceeded)" => failures > MAX_RETRIES)

\* C6: a response with 'id' ends the upload in success at once: no retry
\* increment, no sleep, no retry-exhaustion exit, in both scripts.
C6_FinalResponseReturnsAtOnce ==
    [][(chunk_calls' = chunk_calls + 1 /\ last_chunk' = "final") =>
          /\ upload_state' = "Completed"
          /\ pc' = "uploaded"
          /\ retry' = retry /\ sleeps' = sleeps ]_vars

\* C7: a response without 'id' ends the upload terminally: the retry counter
\* and the error are untouched, nothing sleeps, no chunk call follows and the
\* outcome is not retry exhaustion.
C7_MalformedSuccessIsFatal ==
    [][ /\ (chunk_calls' = chunk_calls + 1 /\ last_chunk' = "malformed") =>
              /\ pc' = "exit"
              /\ upload_state' = "Failed(Terminal)"
              /\ exit_kind' \in {"Exception", "SystemExit"}
              /\ retry' = retry /\ sleeps' = sleeps
              /\ error' = error /\ failures' = failures
        /\ last_chunk = "malformed" =>
              /\ chunk_calls' = chunk_calls
              /\ retry' = retry /\ sleeps' = sleeps ]_vars

\* a malformed success after a retriable failure left error set
C7_Witness ==
    /\ last_chunk = "malformed" /\ pc = "exit"
    /\ failures >= 1 /\ error # "None"
    /\ retry = failures
\* a record was loaded that has a refresh token and less than the refresh
\* margin left at the time of loading
LoadedDueForRefresh ==
    /\ creds_data.set /\ creds_data.refresh_token
    /\ creds_data.expiry # None
    /\ creds_data.expiry - current_time < 600

\* C8: in youtube-upload.py, for a loaded record with a refresh token and
\* less than the refresh margin left, at least one refresh call is issued
\* before credentials are returned and the service is built, whatever the
\* retry ceiling.
C8_RefreshBeforeReturn ==
    (script = ScriptNew /\ LoadedDueForRefresh /\ pc \in {"build", "main"}) =>
        refresh_calls >= 1

\* a record was loaded that has no refresh token and an expiry at or before
\* the time of loading
LoadedTerminalAndExpired ==
    /\ creds_data.set /\ ~creds_data.refresh_token
    /\ creds_data.expiry # None
    /\ creds_data.expiry <= T0

\* C9: for a loaded record with no refresh token and an expiry at or before
\* now, no refresh call is ever issued on the loaded credentials and the
\* manager prompts for interactive authorization before it goes on.
C9_NoRefreshWithoutRefreshToken ==
    LoadedTerminalAndExpired =>
        /\ refresh_calls_loaded = 0
        /\ (pc = "refresh" => creds_origin = "flow")
        /\ (pc # "check_valid" => prompts >= 1)

\* such a record was loaded, the operator authorized, the service is built
C9_Witness ==
    /\ LoadedTerminalAndExpired
    /\ prompts = 1 /\ pc = "main" /\ creds_origin = "flow"

\* the store file exists and does not parse into a credential record
StoreCorrupt == store.exists /\ store.parse # "ok"

\* C10: a store file that does not parse is deleted, the error neither
\* propagates nor ends the process, the manager goes on to interactive
\* authorization, and after a successful exchange the fresh record is
\* written to the store.
C10_CorruptStoreSelfHeals ==
    [][ /\ (pc = "load" /\ StoreCorrupt) =>
              /\ ~store'.exists
              /\ ~creds'.set
              /\ pc' = "check_valid" /\ exit_kind' = ""
        /\ (pc = "check_valid" /\ ~creds.set /\ pc' # "exit") =>
              /\ prompts' = prompts + 1
              /\ creds'.set /\ creds'.token = minted' /\ minted' > minted
              /\ pc' \in {"save_flow", "save_old"}
        /\ (pc \in {"save_flow", "save_old"}) => store' = FileOf(creds') ]_vars

\* the store file is open for writing: a write is under way
Saving == pc \in {"save_refreshed", "save_flow", "save_old"}

C12_StoreWriteAtomic ==
    (script = ScriptNew /\ pc = "killed") => store.parse # "truncated"

\* youtube-upload.py ended with sys.exit(1) out of get_authenticated_service:
\* the code exchange failed, or the final refresh gave up
FatalAuth == script = ScriptNew /\ pc = "exit" /\ exit_kind = "sys.exit:auth"

\* C13: whenever the process terminates with the Fatal-Auth outcome (no
\* refresh possible or retries exhausted, and the code exchange failed), the
\* store holds no record at termination: a stale loaded record was deleted.
C13_FatalAuthLeavesNoRecord ==
    FatalAuth => ~store.exists

\* C14: whenever refresh_token_with_retry leaves its loop without a
\* successful refresh, at line 180 or at line 232, the stored record is
\* deleted, the unrefreshed credentials are dropped, the process does not
\* end, and the next thing the manager does is prompt for interactive
\* authorization.
C14_ExhaustedRefreshFallsToInteractive ==
    [][ /\ (pc = "refresh" /\ pc' # "refresh" /\ refresh_calls' = refresh_calls) =>
              /\ ~store'.exists
              /\ ~creds'.set
              /\ pc' = "check_valid" /\ exit_kind' = ""
        /\ (pc = "check_valid" /\ ~creds.set) => prompts' = prompts + 1 ]_vars

\* C15: whenever get_authenticated_service returns and the service is built,
\* the credentials it is built with have an access token and are not expired
\* at that moment, on every path and in both scripts.
C15_ReturnedCredentialValid ==
    pc = "build" =>
        /\ creds.set
        /\ creds.token # None
        /\ (creds.expiry = None \/ now < creds.expiry)

C18_InteractiveRecordHasExpiry ==
    (script = ScriptNew /\ exchange = "ok") =>
        /\ creds_origin = "flow" => creds.expiry # None
        /\ (pc \in {"save_flow", "final_check"} /\ fetched.expiry = None) =>
              creds.expiry = now + 3600
        /\ (store.exists /\ store.parse = "ok") => store.rec.expiry # None
        /\ pc \in {"final_check", "build", "main"} => store.rec.expiry # None

\* the exchange yielded no expiry and the record was written with the default
C18_Witness ==
    /\ script = ScriptNew /\ pc = "final_check" /\ exchange = "ok"
    /\ fetched.expiry = None
    /\ store.exists /\ store.parse = "ok"
    /\ store.rec.token = fetched.token /\ store.rec.expiry = T0 + 3600

\* C19: after the upload completed, the thumbnail call and the playlist call
\* are each issued at most once; they are issued only for a completed upload
\* and leave it completed; and when the process has ended after a failed
\* thumbnail call, the playlist call was issued if a playlist was requested.
C19_PostUploadCallsSingleShot ==
    /\ thumbnail_calls <= 1 /\ playlist_calls <= 1
    /\ (thumbnail_calls + playlist_calls >= 1) => upload_state = "Completed"
    /\ ( /\ pc \in {"done", "exit"}
         /\ args.playlistId
         /\ thumbnail_result \in {"HttpError", "error"} ) => playlist_calls = 1

\* C20: the sleep of the upload loop after the n-th retriable failure (n is
\* the retry counter after its increment, n >= 1) is at least 0 and less than
\* 2^n seconds, and the ceilings 2^n of the successive sleeps of one upload
\* never decrease.
C20_BackoffBelowCeiling ==
    [][ sleeps' = sleeps + 1 =>
          /\ retry' >= 1
          /\ max_sleep' = 2 ^ retry'
          /\ sleep_seconds' >= 0
          /\ sleep_seconds' < max_sleep' * RandomSteps
          /\ max_sleep' >= max_sleep ]_vars

\* the upload slept twice; the second sleep had the ceiling 4 s and a
\* positive length below it
C20_Witness ==
    /\ sleeps = 2 /\ retry = 2 /\ max_sleep = 4
    /\ sleep_seconds > 0 /\ sleep_seconds < 4 * RandomSteps

\* C17: when the interactive code exchange fails the process terminates: from
\* then on no service is built, no chunk upload and no call after the upload
\* is issued, and nothing is written to the store.
C17_FailedExchangeEndsProcess ==
    [][ exchange' = "failed" =>
          /\ pc' = "exit"
          /\ ~youtube'.set
          /\ chunk_calls' = 0 /\ thumbnail_calls' = 0 /\ playlist_calls' = 0
          /\ store' = store ]_vars

\* the refresh of a loaded record gave up, the store was removed, the
\* operator's code was rejected and the process has ended
C17_Witness ==
    /\ exchange = "failed" /\ pc = "exit"
    /\ creds_data.set /\ refresh_calls >= 1 /\ ~store.exists
    /\ ~youtube.set /\ chunk_calls = 0

\* C21: writing a record to the store file and loading it back yields a
\* record with the same access token, refresh token, expiry and scopes, for
\* every record that is written, the one with the default expiry and the one
\* whose scopes are not SCOPES included.
C21_RoundTripEqual ==
    trip_pc \in {"loaded", "ValueError"} =>
        /\ trip_pc = "loaded"
        /\ reloaded.token = persisted.token
        /\ reloaded.refresh_token = persisted.refresh_token
        /\ reloaded.expiry = persisted.expiry
        /\ reloaded.scopes = persisted.scopes

UploadVariant == (FileLen - progress) + (MAX_RETRIES + 1 - retry)

\* C23: every run of resumable_upload ends in Completed, Failed(Terminal) or
\* Failed(MaxRetriesExceeded) when each partial acknowledgment advances the
\* offset: every iteration that stays in the loop uses up part of the file or
\* of the retry allowance, of which a finite amount is left, so the loop
\* cannot go on forever.
C23_UploadTerminates ==
    /\ [][ (pc = "next_chunk" /\ pc' = "next_chunk") =>
              UploadVariant' < UploadVariant /\ UploadVariant' >= 1 ]_vars
    /\ (pc = "next_chunk") ~>
          (upload_state \in {"Completed", "Failed(Terminal)",
                             "Failed(MaxRetriesExceeded)"})

\* an upload that completed after a partial acknowledgment, a retriable
\* failure and a backoff sleep
C23_Witness ==
    /\ upload_state = "Completed" /\ pc # "next_chunk"
    /\ partial_acks >= 1 /\ failures >= 1 /\ sleeps >= 1

\* the calls of initialize_upload after resumable_upload: one of them was
\* issued, or the first of them is over
PostUploadStarted ==
    \/ thumbnail_calls + playlist_calls >= 1
    \/ pc = "thumbnail_done"

\* C24: in youtube-upload.py resumable_upload returns only a response that
\* contains 'id' (the `return None` after the loop is never reached), and the
\* thumbnail and playlist calls are issued only after such a return: there is
\* none for an upload that failed, ran out of retries or is still in progress.
C24_PostUploadOnlyAfterId ==
    script = ScriptNew =>
        /\ pc = "uploaded" =>
              /\ response = "id" /\ last_chunk = "final"
              /\ upload_state = "Completed"
        /\ PostUploadStarted =>
              /\ response = "id" /\ last_chunk = "final"
              /\ upload_state = "Completed"
              /\ pc \in {"thumbnail_done", "done", "exit"}
              /\ exit_kind \in {"", "Exception"}
        /\ upload_state \in {"Failed(Terminal)", "Failed(MaxRetriesExceeded)"} =>
              /\ pc = "exit"
              /\ thumbnail_calls = 0 /\ playlist_calls = 0

\* an upload that was retried, then completed, followed by both calls
C24_Witness ==
    /\ script = ScriptNew /\ pc = "done"
    /\ failures >= 1 /\ partial_acks >= 1
    /\ response = "id"
    /\ thumbnail_calls = 1 /\ playlist_calls = 1

\* C25: in get_authenticated_service of youtube-upload.py every
\* os.remove(OAUTH2_STORAGE_FILE) finds the file in place: after a corrupt
\* load, a failed refresh, a refresh that left the credentials invalid, or a
\* failed final refresh after interactive authentication, the store is never
\* removed a second time without a write in between, nor removed when it was
\* never written.
C25_RemoveTargetsExistingFile ==
    [][ (script = ScriptNew /\ removes' = removes + 1) =>
            /\ store.exists
            /\ ~store'.exists ]_vars

\* the store was removed after the refresh of the loaded record failed,
\* written again by interactive authentication, and removed again after the
\* final refresh failed
C25_Witness ==
    /\ script = ScriptNew /\ pc = "exit"
    /\ removes = 2 /\ exchange = "ok"
    /\ ~store.exists

====
